---- MODULE Spec2Model ----
(***************************************************************************)
(* Model of poker.py: Card, the _Cards context, the ten _Combination       *)
(* classes, Hand construction (validation and classification) and the      *)
(* Python 2 three-way comparison Hand.__cmp__ / _Combination.__cmp__.      *)
(***************************************************************************)
EXTENDS Integers, Sequences, FiniteSets, TLC

VARIABLES
    hands,       \* the Hand objects constructed so far, in construction order
    card_list,   \* the argument of the last Hand(card_list) call
    raised,      \* the exception of the last operation, or "None"
    built,       \* whether the last Hand(...) call got as far as _Cards(card_list)
    evaluated,   \* the classes whose match() the last Hand(...) call evaluated
    result       \* <<v>> when the last call was a comparison that returned v, else <<>>

vars == <<hands, card_list, raised, built, evaluated, result>>

----------------------------------------------------------------------------
(* Bounds of the model. *)

\* cards of the stock that single-hand inputs are drawn from
DeckSize == 15
\* cards of the stock that the inputs of two-hand runs are drawn from
CmpDeckSize == 8
\* cards of the stock that the inputs of three-hand runs are drawn from
OrderDeckSize == 6

----------------------------------------------------------------------------
(* Card *)

RANKS == <<"2", "3", "4", "5", "6", "7", "8", "9", "T", "J", "Q", "K", "A">>

\* tuple.index / list.index: the 0-based position of the first occurrence
IndexOf(seq, x) == (CHOOSE i \in 1..Len(seq) : seq[i] = x /\ \A j \in 1..(i-1) : seq[j] # x) - 1

Card(rank, suit) == [rank |-> rank, suit |-> suit]

Priority(card) == IndexOf(RANKS, card.rank)

CardEq(c1, c2) == c1.rank = c2.rank /\ c1.suit = c2.suit

----------------------------------------------------------------------------
(* Python built-ins used by the program *)

\* list.count
Count(seq, x) == Cardinality({i \in 1..Len(seq) : seq[i] = x})

\* list.reverse, as a value
Reverse(seq) == [i \in 1..Len(seq) |-> seq[Len(seq) + 1 - i]]

\* (mutant) the distinctness check counts the list, not the set
SetLenOfList(list) == Len(list)

\* len(set(card_list)): elements equal by Card.__eq__ count once
SetLen(list) == Cardinality({i \in 1..Len(list) : \A j \in 1..(i-1) : ~CardEq(list[j], list[i])})

\* one insertion of the stable sort: pair p goes after every pair whose key is <= its key
InsertByKey(sorted, p) ==
    LET n == Cardinality({i \in 1..Len(sorted) : sorted[i][1] <= p[1]})
    IN  SubSeq(sorted, 1, n) \o <<p>> \o SubSeq(sorted, n + 1, Len(sorted))

\* sorted(iterable, key=...) on <<key, item>> pairs: stable, ascending by key
RECURSIVE SortByKey(_)
SortByKey(pairs) ==
    IF pairs = <<>> THEN <<>>
    ELSE InsertByKey(SortByKey(SubSeq(pairs, 1, Len(pairs) - 1)), pairs[Len(pairs)])

Items(pairs) == [i \in 1..Len(pairs) |-> pairs[i][2]]

\* OrderedDict(pairs): a key keeps the position of its first insertion and takes
\* the value of its last one
RECURSIVE OrderedDict(_)
OrderedDict(pairs) ==
    IF pairs = <<>> THEN <<>>
    ELSE LET d == OrderedDict(SubSeq(pairs, 1, Len(pairs) - 1))
             p == pairs[Len(pairs)]
         IN  IF \E i \in 1..Len(d) : d[i][1] = p[1]
             THEN [i \in 1..Len(d) |-> IF d[i][1] = p[1] THEN p ELSE d[i]]
             ELSE Append(d, p)

DictKeys(d) == [i \in 1..Len(d) |-> d[i][1]]

DictValues(d) == [i \in 1..Len(d) |-> d[i][2]]

DictGet(d, k) == d[CHOOSE i \in 1..Len(d) : d[i][1] = k][2]

\* cmp on two ints
CmpInt(x, y) == IF x < y THEN -1 ELSE IF x > y THEN 1 ELSE 0

\* cmp on two lists of ints: the first differing position decides, then the lengths
RECURSIVE CmpList(_, _)
CmpList(xs, ys) ==
    IF xs = <<>> \/ ys = <<>> THEN CmpInt(Len(xs), Len(ys))
    ELSE IF Head(xs) # Head(ys) THEN CmpInt(Head(xs), Head(ys))
    ELSE CmpList(Tail(xs), Tail(ys))

----------------------------------------------------------------------------
(* _Cards: the context *)

\* (mutant) the cards are kept in the order given
SortedCardsAsGiven(cards) == cards

SortedCards(cards) ==
    Items(SortByKey([i \in 1..Len(cards) |-> <<Priority(cards[i]), cards[i]>>]))

Cards(cards) ==
    LET sorted_cards == SortedCards(cards)
        sorted_ranks == [i \in 1..Len(sorted_cards) |-> sorted_cards[i].rank]
    IN  [_sorted_cards |-> sorted_cards,
         _sorted_ranks |-> sorted_ranks,
         _similar_ranks |-> OrderedDict([i \in 1..Len(sorted_cards) |->
                               <<Priority(sorted_cards[i]),
                                 Count(sorted_ranks, sorted_cards[i].rank)>>])]

----------------------------------------------------------------------------
(* The combination classes *)

\* (mutant) Straight listed above Flush
COMBINATIONS_StraightAboveFlush ==
    <<"_HighCard", "_OnePair", "_TwoPair", "_TreeOfAKind", "_Flush",
      "_Straight", "_FullHouse", "_FourOfAKind", "_StraightFlush", "_RoyalFlush">>

COMBINATIONS == <<"_HighCard", "_OnePair", "_TwoPair", "_TreeOfAKind", "_Straight",
                  "_Flush", "_FullHouse", "_FourOfAKind", "_StraightFlush", "_RoyalFlush">>

OneSuit(cards) == Cardinality({cards._sorted_cards[i].suit : i \in 1..Len(cards._sorted_cards)}) = 1

\* (mutant) the Ace also counts low: A-2-3-4-5 is taken for a run
StraightMatchRanksAceLow(cards) ==
    LET sequence == [i \in 1..Len(cards._sorted_cards) |-> Priority(cards._sorted_cards[i])]
    IN  \/ \A i \in 1..(Len(sequence) - 1) : sequence[i + 1] - sequence[i] = 1
        \/ sequence = <<0, 1, 2, 3, 12>>

StraightMatchRanks(cards) ==
    LET sequence == [i \in 1..Len(cards._sorted_cards) |-> Priority(cards._sorted_cards[i])]
    IN  \A i \in 1..(Len(sequence) - 1) : sequence[i + 1] - sequence[i] = 1

RoyalFlushMatchRanks(cards) == cards._sorted_ranks = <<"T", "J", "Q", "K", "A">>

FourOfAKindMatchRanks(cards) == Count(DictValues(cards._similar_ranks), 4) = 1

\* (mutant) three distinct ranks instead of two
FullHouseMatchRanksThree(cards) ==
    Cardinality({cards._sorted_cards[i].rank : i \in 1..Len(cards._sorted_cards)}) = 3

FullHouseMatchRanks(cards) ==
    Cardinality({cards._sorted_cards[i].rank : i \in 1..Len(cards._sorted_cards)}) = 2

TreeOfAKindMatchRanks(cards) == Count(DictValues(cards._similar_ranks), 3) = 1

TwoPairMatchRanks(cards) == Count(DictValues(cards._similar_ranks), 2) = 2

OnePairMatchRanks(cards) == Count(DictValues(cards._similar_ranks), 2) = 1

MatchSuit(cls, cards) ==
    IF cls \in {"_StraightFlush", "_RoyalFlush", "_Flush"} THEN OneSuit(cards) ELSE TRUE

\* (mutant) the base class's _match_ranks returns False
MatchRanksBaseFalse(cls, cards) ==
    CASE cls \in {"_Straight", "_StraightFlush"} -> StraightMatchRanks(cards)
      [] cls = "_RoyalFlush" -> RoyalFlushMatchRanks(cards)
      [] cls = "_FourOfAKind" -> FourOfAKindMatchRanks(cards)
      [] cls = "_FullHouse" -> FullHouseMatchRanks(cards)
      [] cls = "_TreeOfAKind" -> TreeOfAKindMatchRanks(cards)
      [] cls = "_TwoPair" -> TwoPairMatchRanks(cards)
      [] cls = "_OnePair" -> OnePairMatchRanks(cards)
      [] OTHER -> FALSE

MatchRanks(cls, cards) ==
    CASE cls \in {"_Straight", "_StraightFlush"} -> StraightMatchRanks(cards)
      [] cls = "_RoyalFlush" -> RoyalFlushMatchRanks(cards)
      [] cls = "_FourOfAKind" -> FourOfAKindMatchRanks(cards)
      [] cls = "_FullHouse" -> FullHouseMatchRanks(cards)
      [] cls = "_TreeOfAKind" -> TreeOfAKindMatchRanks(cards)
      [] cls = "_TwoPair" -> TwoPairMatchRanks(cards)
      [] cls = "_OnePair" -> OnePairMatchRanks(cards)
      [] OTHER -> TRUE

Match(cls, cards) == MatchSuit(cls, cards) /\ MatchRanks(cls, cards)

\* priority_list of each class: the list it returns
PriorityList(cls, cards) ==
    CASE cls \in {"_Straight", "_StraightFlush", "_RoyalFlush"} ->
           <<Priority(cards._sorted_cards[Len(cards._sorted_cards)])>>
      [] cls \in {"_FourOfAKind", "_FullHouse", "_TreeOfAKind", "_TwoPair", "_OnePair"} ->
           LET keys == DictKeys(cards._similar_ranks)
           IN  Items(SortByKey([i \in 1..Len(keys) |->
                                  <<DictGet(cards._similar_ranks, keys[i]), keys[i]>>]))
      [] cls \in {"_Flush", "_HighCard"} ->
           Items(SortByKey([i \in 1..Len(cards._sorted_cards) |->
                              <<Priority(cards._sorted_cards[i]),
                                Priority(cards._sorted_cards[i])>>]))
      [] OTHER -> <<>>

\* (mutant) Flush and High Card hand out a list that the context keeps
PriorityListObjectHeld(cls, cards) ==
    [value |-> PriorityList(cls, cards),
     held_by |-> IF cls \in {"_Flush", "_HighCard"} THEN "_sorted_ranks" ELSE "None"]

\* The list object a priority_list access hands out: its value, and the field of
\* the context that holds this very object ("None": a list built by the access).
PriorityListObject(cls, cards) == [value |-> PriorityList(cls, cards), held_by |-> "None"]

----------------------------------------------------------------------------
(* Hand *)

CARDS_QTY == 5

\* The loop of match_combination from position i of COMBINATIONS downwards;
\* seen are the classes already evaluated.
RECURSIVE ScanCombinations(_, _, _)
ScanCombinations(cards, i, seen) ==
    IF i = 0 THEN [raised |-> "CombinationError", combination |-> "None", evaluated |-> seen]
    ELSE IF Match(COMBINATIONS[i], cards)
         THEN [raised |-> "None", combination |-> COMBINATIONS[i],
               evaluated |-> Append(seen, COMBINATIONS[i])]
         ELSE ScanCombinations(cards, i - 1, Append(seen, COMBINATIONS[i]))

MatchCombination(cards) == ScanCombinations(cards, Len(COMBINATIONS), <<>>)

Failed(exception, was_built, seen) ==
    [raised |-> exception, built |-> was_built, evaluated |-> seen, hand |-> "None"]

\* Hand.__init__: the three assertions, then the context, then the classification
HandInit(list) ==
    IF list = <<>> THEN Failed("AssertionError", FALSE, <<>>)
    ELSE IF Len(list) # CARDS_QTY THEN Failed("AssertionError", FALSE, <<>>)
    ELSE IF SetLen(list) # CARDS_QTY THEN Failed("AssertionError", FALSE, <<>>)
    ELSE LET cards == Cards(list)
             found == MatchCombination(cards)
         IN  IF found.raised # "None" THEN Failed(found.raised, TRUE, found.evaluated)
             ELSE [raised |-> "None", built |-> TRUE, evaluated |-> found.evaluated,
                   hand |-> [_cards |-> cards, _combination |-> found.combination]]

\* Hand.priority
HandPriority(hand) == IndexOf(COMBINATIONS, hand._combination)

\* (mutant) the priority lists are compared as they are, not reversed
CombinationCmpNotReversed(self, other) ==
    CmpList(PriorityListObject(self._combination, self._cards).value,
            PriorityListObject(other._combination, other._cards).value)

\* (mutant) only the list of self is reversed
CombinationCmpSelfReversedOnly(self, other) ==
    CmpList(Reverse(PriorityListObject(self._combination, self._cards).value),
            PriorityListObject(other._combination, other._cards).value)

\* _Combination.__cmp__ on the combinations of two hands
CombinationCmp(self, other) ==
    CmpList(Reverse(PriorityListObject(self._combination, self._cards).value),
            Reverse(PriorityListObject(other._combination, other._cards).value))

\* (mutant) hands of one kind are not told apart
HandCmpKindOnly(self, other) == CmpInt(HandPriority(self), HandPriority(other))

\* Hand.__cmp__
HandCmp(self, other) ==
    IF HandPriority(self) = HandPriority(other)
    THEN CombinationCmp(self, other)
    ELSE CmpInt(HandPriority(self), HandPriority(other))

\* list.reverse() on a list object: a list held by the context changes there
ReverseInPlace(hand, obj) ==
    IF obj.held_by = "None" THEN hand
    ELSE [hand EXCEPT !._cards[obj.held_by] = Reverse(@)]

\* The hands after hands[i].__cmp__(hands[j]): the two reverse() calls of
\* _Combination.__cmp__ act when the kinds are equal.
AfterCmp(hs, i, j) ==
    IF HandPriority(hs[i]) # HandPriority(hs[j]) THEN hs
    ELSE LET h1 == [hs EXCEPT ![i] = ReverseInPlace(@, PriorityListObject(@._combination, @._cards))]
         IN  [h1 EXCEPT ![j] = ReverseInPlace(@, PriorityListObject(@._combination, @._cards))]

----------------------------------------------------------------------------
(* Inputs *)

\* The hands of the demonstration driver, as from_string builds them
MainHands ==
    { <<Card("6","D"), Card("3","D"), Card("5","D"), Card("4","D"), Card("2","D")>>,
      <<Card("A","S"), Card("J","S"), Card("Q","S"), Card("K","S"), Card("T","S")>>,
      <<Card("K","D"), Card("K","S"), Card("Q","S"), Card("K","C"), Card("K","H")>>,
      <<Card("J","D"), Card("8","C"), Card("5","D"), Card("3","H"), Card("T","S")>>,
      <<Card("5","H"), Card("5","C"), Card("Q","D"), Card("Q","C"), Card("Q","S")>>,
      <<Card("2","D"), Card("3","D"), Card("7","D"), Card("Q","D"), Card("A","D")>>,
      <<Card("4","D"), Card("5","D"), Card("6","D"), Card("7","H"), Card("8","D")>>,
      <<Card("J","D"), Card("J","C"), Card("J","H"), Card("5","H"), Card("8","D")>>,
      <<Card("J","D"), Card("J","C"), Card("5","D"), Card("5","H"), Card("T","S")>>,
      <<Card("J","D"), Card("J","C"), Card("5","D"), Card("A","H"), Card("T","S")>>,
      <<Card("J","D"), Card("A","C"), Card("5","D"), Card("3","H"), Card("T","S")>>,
      <<Card("J","D"), Card("J","C"), Card("J","H"), Card("3","H"), Card("8","D")>>,
      <<Card("Q","D"), Card("T","S"), Card("Q","S"), Card("2","C"), Card("K","H")>>,
      <<Card("Q","D"), Card("Q","S"), Card("Q","H"), Card("Q","C"), Card("K","H")>> }

\* The cards inputs are dealt from, in dealing order; a run uses a prefix of it
Stock ==
    <<Card("A","S"), Card("K","S"), Card("Q","S"), Card("J","S"), Card("T","S"),
      Card("A","C"), Card("9","S"), Card("K","C"), Card("A","D"), Card("A","H"),
      Card("2","S"), Card("3","S"), Card("4","S"), Card("5","S"), Card("K","D"),
      Card("2","C"), Card("6","S"), Card("Q","H"), Card("2","D"), Card("J","C")>>

Min(a, b) == IF a < b THEN a ELSE b

\* the strictly increasing sequences of k positions among 1..n
RECURSIVE Positions(_, _)
Positions(n, k) ==
    IF k = 0 THEN {<<>>}
    ELSE IF n < k THEN {}
    ELSE Positions(n - 1, k) \cup {Append(s, n) : s \in Positions(n - 1, k - 1)}

\* every list of k different cards of the first n cards of the stock, in stock order
Deal(n, k) ==
    {[i \in 1..k |-> Stock[s[i]]] : s \in Positions(Min(n, Len(Stock)), k)}

\* card lists that are no hand: none, four or six cards, or a card twice
InvalidLists ==
    {<<>>}
    \cup Deal(CmpDeckSize, 4)
    \cup Deal(CmpDeckSize, 6)
    \cup {[l EXCEPT ![p[2]] = l[p[1]]] : l \in Deal(CmpDeckSize, 5), p \in Positions(5, 2)}
    \cup {Append(l, l[1]) : l \in Deal(CmpDeckSize, 4)}

HandInputs == Deal(DeckSize, CARDS_QTY) \cup MainHands \cup InvalidLists

CmpInputs == Deal(CmpDeckSize, CARDS_QTY) \cup MainHands

OrderInputs == Deal(OrderDeckSize, CARDS_QTY) \cup MainHands

----------------------------------------------------------------------------
(* Operations *)

Init ==
    /\ hands = <<>>
    /\ card_list = <<>>
    /\ raised = "None"
    /\ built = FALSE
    /\ evaluated = <<>>
    /\ result = <<>>

\* Hand(list), kept by the caller when it returns; at most limit hands are built.
\* Nothing catches an exception: the run ends with the call that raises.
NewHand(list, limit) ==
    /\ raised = "None"
    /\ Len(hands) < limit
    /\ LET call == HandInit(list)
       IN  /\ card_list' = list
           /\ raised' = call.raised
           /\ built' = call.built
           /\ evaluated' = call.evaluated
           /\ hands' = IF call.raised = "None" THEN Append(hands, call.hand) ELSE hands
    /\ result' = <<>>

\* cmp(hands[i], hands[j])
Compare(i, j) ==
    /\ raised = "None"
    /\ i \in 1..Len(hands)
    /\ j \in 1..Len(hands)
    /\ result' = <<HandCmp(hands[i], hands[j])>>
    /\ hands' = AfterCmp(hands, i, j)
    /\ raised' = "None"
    /\ UNCHANGED <<card_list, built, evaluated>>

\* one Hand is constructed from any card list
Next == \E list \in HandInputs : NewHand(list, 1)

Spec == Init /\ [][Next]_vars

\* two hands are constructed and compared
NextCmp ==
    \/ \E list \in CmpInputs : NewHand(list, 2)
    \/ \E i \in 1..2, j \in 1..2 : Compare(i, j)

SpecCmp == Init /\ [][NextCmp]_vars

\* three hands are constructed, and two of the hands built are compared once
NextOrder ==
    \/ \E list \in OrderInputs : NewHand(list, 3)
    \/ \E i \in 1..3, j \in 1..3 : result = <<>> /\ Compare(i, j)

SpecOrder == Init /\ [][NextOrder]_vars

----------------------------------------------------------------------------
(* What the properties are stated with: the cards of a hand as a set, and the *)
(* standard poker categories read off that set.                              *)

CardSet(list) == {list[i] : i \in 1..Len(list)}

HandCardSet(hand) == CardSet(hand._cards._sorted_cards)

RankCount(S, r) == Cardinality({c \in S : c.rank = r})

RankSet(S) == {c.rank : c \in S}

\* the multiplicities of the ranks present, as a set
Split(S) == {RankCount(S, r) : r \in RankSet(S)}

SameSuit(S) == Cardinality({c.suit : c \in S}) = 1

Consecutive(S) == \E low \in 0..(Len(RANKS) - 5) : {Priority(c) : c \in S} = low..(low + 4)

ValidList(list) == Len(list) = 5 /\ Cardinality(CardSet(list)) = 5

StdKind(S) ==
    IF SameSuit(S) /\ RankSet(S) = {"T", "J", "Q", "K", "A"} THEN "_RoyalFlush"
    ELSE IF SameSuit(S) /\ Consecutive(S) THEN "_StraightFlush"
    ELSE IF \E r \in RankSet(S) : RankCount(S, r) = 4 THEN "_FourOfAKind"
    ELSE IF Split(S) = {2, 3} THEN "_FullHouse"
    ELSE IF SameSuit(S) THEN "_Flush"
    ELSE IF Consecutive(S) THEN "_Straight"
    ELSE IF \E r \in RankSet(S) : RankCount(S, r) = 3 THEN "_TreeOfAKind"
    ELSE IF Cardinality({r \in RankSet(S) : RankCount(S, r) = 2}) = 2 THEN "_TwoPair"
    ELSE IF Cardinality({r \in RankSet(S) : RankCount(S, r) = 2}) = 1 THEN "_OnePair"
    ELSE "_HighCard"

\* High Card < One Pair < ... < Royal Flush
StdStrength(kind) ==
    CASE kind = "_HighCard" -> 0
      [] kind = "_OnePair" -> 1
      [] kind = "_TwoPair" -> 2
      [] kind = "_TreeOfAKind" -> 3
      [] kind = "_Straight" -> 4
      [] kind = "_Flush" -> 5
      [] kind = "_FullHouse" -> 6
      [] kind = "_FourOfAKind" -> 7
      [] kind = "_StraightFlush" -> 8
      [] kind = "_RoyalFlush" -> 9

\* whether <<count, priority>> pair y comes before pair x: more cards, then higher rank
Heavier(y, x) == y[1] > x[1] \/ (y[1] = x[1] /\ y[2] > x[2])

\* the tie-break key of a hand, read off its cards: the priorities of its ranks,
\* the most duplicated rank first, then from high to low
RefKey(hand) ==
    LET S == HandCardSet(hand)
        w == {<<RankCount(S, c.rank), Priority(c)>> : c \in S}
    IN  [i \in 1..Cardinality(w) |->
           (CHOOSE x \in w : Cardinality({y \in w : Heavier(y, x)}) = i - 1)[2]]

\* -1, 0 or 1 by the first position where xs and ys differ
FirstDiff(xs, ys) ==
    LET d == {i \in 1..Min(Len(xs), Len(ys)) : xs[i] # ys[i]}
    IN  IF d = {} THEN 0
        ELSE LET i == CHOOSE k \in d : \A m \in d : k <= m
             IN  IF xs[i] < ys[i] THEN -1 ELSE 1

HandPriorityList(hand) == PriorityList(hand._combination, hand._cards)

\* the last Hand(card_list) call returned a Hand, which is the last of hands
Constructed == raised = "None" /\ hands # <<>> /\ result = <<>>

LastHand == hands[Len(hands)]

AllPermutations == {p \in [1..5 -> 1..5] : \A i \in 1..5 : \E j \in 1..5 : p[j] = i}

\* a Hand(card_list) call was made
Called == raised # "None" \/ hands # <<>>

----------------------------------------------------------------------------
(* Properties of construction, checked under Spec *)

\* C1: for a list of 5 pairwise-distinct cards, match_combination evaluates the
\* rules from Royal Flush downwards, stops at the first rule that matches and
\* returns it; CombinationError is never raised.
C1_FirstMatchAlwaysFound ==
    /\ raised # "CombinationError"
    /\ (Called /\ ValidList(card_list)) =>
         /\ raised = "None"
         /\ built
         /\ Len(evaluated) \in 1..Len(COMBINATIONS)
         /\ \A k \in 1..Len(evaluated) : evaluated[k] = COMBINATIONS[Len(COMBINATIONS) + 1 - k]
         /\ \A k \in 1..(Len(evaluated) - 1) : ~Match(evaluated[k], LastHand._cards)
         /\ Match(evaluated[Len(evaluated)], LastHand._cards)
         /\ LastHand._combination = evaluated[Len(evaluated)]

\* a hand for which every rule down to High Card was evaluated
C1_Witness ==
    Constructed /\ Len(evaluated) = Len(COMBINATIONS) /\ LastHand._combination = "_HighCard"

\* C2: the kind selected for a valid hand is the standard category of its five
\* cards (Ace high only).
C2_StandardCategory ==
    Constructed => LastHand._combination = StdKind(CardSet(card_list))

\* A-2-3-4-5 in mixed suits was classified, as High Card
C2_Witness ==
    /\ Constructed
    /\ RankSet(CardSet(card_list)) = {"A", "2", "3", "4", "5"}
    /\ ~SameSuit(CardSet(card_list))
    /\ LastHand._combination = "_HighCard"

\* C6: every permutation of the card list of a hand yields the same kind, the
\* same priority list, the same sorted ranks and the same rank counts.
C6_OrderOfCardsIrrelevant ==
    Constructed =>
      \A p \in AllPermutations :
        LET again == HandInit([i \in 1..5 |-> card_list[p[i]]])
        IN  /\ again.raised = "None"
            /\ again.hand._combination = LastHand._combination
            /\ HandPriorityList(again.hand) = HandPriorityList(LastHand)
            /\ again.hand._cards._sorted_ranks = LastHand._cards._sorted_ranks
            /\ again.hand._cards._similar_ranks = LastHand._cards._similar_ranks

\* a hand one of whose permutations gives another list of sorted cards
C6_Witness ==
    /\ Constructed
    /\ \E p \in AllPermutations :
         HandInit([i \in 1..5 |-> card_list[p[i]]]).hand._cards._sorted_cards
           # LastHand._cards._sorted_cards

\* C8: a card list that has not exactly 5 cards, or has a card twice, makes
\* Hand(...) fail before the context is built and before any rule is evaluated,
\* and no Hand exists; every Hand holds 5 pairwise-distinct cards and a
\* combination that matches them.
C8_InvalidListRejected ==
    /\ (Called /\ ~ValidList(card_list)) =>
         raised = "AssertionError" /\ ~built /\ evaluated = <<>> /\ hands = <<>>
    /\ \A i \in 1..Len(hands) :
         /\ Len(hands[i]._cards._sorted_cards) = 5
         /\ Cardinality(HandCardSet(hands[i])) = 5
         /\ \E k \in 1..Len(COMBINATIONS) : COMBINATIONS[k] = hands[i]._combination
         /\ Match(hands[i]._combination, hands[i]._cards)

\* five cards with one of them twice were rejected
C8_Witness ==
    /\ raised = "AssertionError"
    /\ Len(card_list) = 5
    /\ Cardinality(CardSet(card_list)) = 4
    /\ hands = <<>>

\* C9 as stated: whenever the Full House rank predicate holds for a valid hand,
\* the rank counts are a 3+2 split.
C9_TwoRanksForceThreeTwo ==
    Constructed =>
      (FullHouseMatchRanks(LastHand._cards) => Split(CardSet(card_list)) = {2, 3})

\* C9 amended: whenever the Full House rank predicate holds for a valid hand,
\* the rank counts are a 3+2 split or a 4+1 split, and a hand with the 4+1
\* split is classified Four of a Kind, the rule evaluated before Full House.
C9_TwoRanksThreeTwoOrFourOne ==
    Constructed =>
      (FullHouseMatchRanks(LastHand._cards) =>
         \/ Split(CardSet(card_list)) = {2, 3}
         \/ /\ Split(CardSet(card_list)) = {1, 4}
            /\ LastHand._combination = "_FourOfAKind")

\* a hand classified Full House
C9_Witness ==
    /\ Constructed
    /\ FullHouseMatchRanks(LastHand._cards)
    /\ LastHand._combination = "_FullHouse"
    /\ Split(CardSet(card_list)) = {2, 3}

----------------------------------------------------------------------------
(* Properties of comparison, checked under SpecCmp and SpecOrder *)

Kind(i) == hands[i]._combination

\* C3: between two hands of different kinds, the hand whose kind comes later in
\* High Card < One Pair < Two Pair < Three of a Kind < Straight < Flush <
\* Full House < Four of a Kind < Straight Flush < Royal Flush ranks higher,
\* whatever the priority lists are.
C3_KindOrderDecides ==
    \A i \in 1..Len(hands), j \in 1..Len(hands) :
      Kind(i) # Kind(j) =>
        HandCmp(hands[i], hands[j]) = CmpInt(StdStrength(Kind(i)), StdStrength(Kind(j)))

\* a Flush was compared with a Straight and ranked higher
C3_Witness ==
    /\ Len(hands) = 2
    /\ Kind(1) = "_Flush"
    /\ Kind(2) = "_Straight"
    /\ result = <<1>>

\* C4: between two hands of the same kind, the reversed priority lists are
\* compared element by element and the first differing position decides, the
\* larger priority winning; a priority list reversed is the hand's ranks with
\* the most duplicated first and then from high to low, so that this order of
\* the ranks decides.
C4_TieBreakByWeightThenRank ==
    /\ \A i \in 1..Len(hands) :
         LET reversed == Reverse(HandPriorityList(hands[i]))
         IN  reversed = SubSeq(RefKey(hands[i]), 1, Len(reversed))
    /\ \A i \in 1..Len(hands), j \in 1..Len(hands) :
         Kind(i) = Kind(j) =>
           /\ HandCmp(hands[i], hands[j])
                = FirstDiff(Reverse(HandPriorityList(hands[i])),
                            Reverse(HandPriorityList(hands[j])))
           /\ HandCmp(hands[i], hands[j]) = FirstDiff(RefKey(hands[i]), RefKey(hands[j]))

\* J-J-J-8-5 was compared with J-J-J-8-3 and ranked higher
C4_Witness ==
    /\ Len(hands) = 2
    /\ Kind(1) = "_TreeOfAKind"
    /\ Kind(2) = "_TreeOfAKind"
    /\ RefKey(hands[1]) = <<9, 6, 3>>
    /\ RefKey(hands[2]) = <<9, 6, 1>>
    /\ result = <<1>>

\* C7: two hands compare equal exactly when they have the same kind and the
\* same priority list, also when their cards differ.
C7_EqualIffSameKindAndList ==
    \A i \in 1..Len(hands), j \in 1..Len(hands) :
      HandCmp(hands[i], hands[j]) = 0
        <=> (Kind(i) = Kind(j) /\ HandPriorityList(hands[i]) = HandPriorityList(hands[j]))

\* two hands of different cards were compared and found equal
C7_Witness ==
    /\ Len(hands) = 2
    /\ HandCardSet(hands[1]) # HandCardSet(hands[2])
    /\ HandCmp(hands[1], hands[2]) = 0
    /\ result = <<0>>

\* C10: a comparison leaves every hand as it was (sorted cards, rank counts,
\* kind, and with them the priority list), so that every comparison gives the
\* same result afterwards, and a hand compares equal to itself.
C10_CompareChangesNoHand ==
    [][result' # <<>> =>
         /\ hands' = hands
         /\ \A i \in 1..Len(hands), j \in 1..Len(hands) :
              HandCmp(hands'[i], hands'[j]) = HandCmp(hands[i], hands[j])
         /\ \A i \in 1..Len(hands) : HandCmp(hands[i], hands[i]) = 0]_vars

\* two different hands of one kind were compared, so reverse() ran on both lists
C10_Witness ==
    /\ Len(hands) = 2
    /\ Kind(1) = Kind(2)
    /\ Kind(1) = "_FourOfAKind"
    /\ result = <<1>>

\* C5: the comparison is a total order: cmp(a, b) = -cmp(b, a), a < b and
\* b < c imply a < c, and two hands of one kind have priority lists of one
\* length.
C5_TotalOrder ==
    LET n == Len(hands)
        c == [i \in 1..n |-> [j \in 1..n |-> HandCmp(hands[i], hands[j])]]
        lt(i, j) == c[i][j] = -1
    IN  /\ c \in [1..n -> [1..n -> {-1, 0, 1}]]
        /\ \A i \in 1..n, j \in 1..n :
             /\ c[i][j] = 0 - c[j][i]
             /\ Kind(i) = Kind(j) =>
                  Len(HandPriorityList(hands[i])) = Len(HandPriorityList(hands[j]))
        /\ \A i \in 1..n, j \in 1..n, k \in 1..n :
             (lt(i, j) /\ lt(j, k)) => lt(i, k)

\* three hands of one kind in ascending order, after a comparison
C5_Witness ==
    /\ Len(hands) = 3
    /\ Kind(1) = Kind(2)
    /\ Kind(2) = Kind(3)
    /\ HandCmp(hands[1], hands[2]) = -1
    /\ HandCmp(hands[2], hands[3]) = -1
    /\ result = <<-1>>

====
